---- MODULE Spec2Model ----
(***************************************************************************)
(* Model of the orchestration loop of iot_framework:                       *)
(*   RuntimeController::new / RuntimeController::run (core/runtime.rs),    *)
(*   the SensorOutput value type (core/types.rs) and the no-op             *)
(*   DummyActuator (devices/actuators/dummy.rs).                           *)
(* Sensors, actuators and the communicator are trait objects: the outcome  *)
(* of read / send / execute is an input of the loop, chosen with \E.       *)
(***************************************************************************)
EXTENDS Integers, Sequences, FiniteSets, TLC

\* ---------------------------------------------------------------- bounds
MaxSensors   == 2   \* longest sensor list handed to new
MaxActuators == 2   \* longest actuator list handed to new
MaxInterval  == 1   \* largest interval (seconds) handed to new
MaxActState  == 1   \* private driver state of an actuator ranges over 0..MaxActState
MaxCalls     == 5   \* longest sequence of calls made on a lone device
MaxFileLen   == 5   \* longest w1_slave content, in characters

\* ------------------------------------------------------------ value type
\* enum SensorOutput { Bool, Int, Float, Text, Bytes }: one representative
\* payload per variant.
SensorOutput ==
    { [tag |-> "Bool",  val |-> 1],
      [tag |-> "Int",   val |-> 7],
      [tag |-> "Float", val |-> 2150],
      [tag |-> "Text",  val |-> 3],
      [tag |-> "Bytes", val |-> 4] }

\* Values the sensors of the orchestration model report: the loop never looks
\* inside a value, so three distinguishable variants exercise it.
Readings == { v \in SensorOutput : v.tag \in {"Bool", "Float", "Text"} }

\* "no value bound": the name `output` only exists inside the Ok arm.
NoValue == [tag |-> "None", val |-> 0]

\* Kinds of device behind the trait objects.
SensorKinds   == {"dyn"}
ActuatorKinds == {"dyn", "dummy"}

RECURSIVE SeqsUpTo(_, _)
SeqsUpTo(S, n) ==
    IF n = 0 THEN { <<>> }
    ELSE LET shorter == SeqsUpTo(S, n - 1)
         IN  shorter \cup { Append(q, x) : q \in { r \in shorter : Len(r) = n - 1 }, x \in S }

\* Option<Vec<Box<dyn Actuator>>>
NoActuators      == [some |-> FALSE, list |-> <<>>]
SomeActuators(l) == [some |-> TRUE,  list |-> l]

\* ------------------------------------------------------ concrete sensors
\* Text payloads are numbered: the two texts of the rain sensor, and for a
\* temperature text "X.XX degC" the hundredths of a degree it shows.
Humedo == [tag |-> "Text", val |-> -1]
Seco   == [tag |-> "Text", val |-> -2]
TempText(hundredths) == [tag |-> "Text", val |-> hundredths]

\* Characters a w1_slave file is made of here: the marker's two characters,
\* two digits, a line break and some other character.
Digits     == {"2", "7"}
Whitespace == {"nl"}
Chars      == {"t", "=", "x"} \cup Digits \cup Whitespace

\* A device file: readable with some content, or not readable at all.
Unreadable == [ok |-> FALSE, data |-> <<>>]
Readable(data) == [ok |-> TRUE, data |-> data]

\* The hardware and sensor fields when no concrete sensor is in play.
NoDevices ==
    [gpioOk |-> TRUE, pinNumber |-> 17, activeLow |-> TRUE, level |-> "High", file |-> Unreadable]

\* GpioDriver::new(pin_number): Err when rppal cannot open the GPIO or the pin.
GpioDriverNew(pin_number, gpioOk) ==
    IF gpioOk THEN [res |-> "Ok", pin_number |-> pin_number]
              ELSE [res |-> "Err", pin_number |-> pin_number]

\* GpioDriver::read_bool: true = HIGH, false = LOW
ReadBool(level) == level = "High"

\* RainSensor::new(pin, active_low): the driver is opened here, and its
\* failure is returned from new as ReadError("gpio init: ...").
RainSensorNew(pin, active_low, gpioOk) ==
    LET gpio == GpioDriverNew(pin, gpioOk)
    IN  IF gpio.res = "Err"
        THEN [res |-> "Err", pinNumber |-> pin, activeLow |-> active_low]
        ELSE [res |-> "Ok",  pinNumber |-> gpio.pin_number, activeLow |-> active_low]

\* Variant of RainRead: the polarity flag is ignored (LOW is always wet).
RainReadIgnoresPolarity(active_low, level) ==
    LET raw_high == ReadBool(level)
        wet == ~raw_high
    IN  [res |-> "Ok", v |-> IF wet THEN Humedo ELSE Seco]

\* RainSensor::read
RainRead(active_low, level) ==
    LET raw_high == ReadBool(level)
        wet == IF active_low THEN ~raw_high ELSE raw_high
    IN  [res |-> "Ok", v |-> IF wet THEN Humedo ELSE Seco]

\* Temperature::new(device_id): only builds the path, always Ok.
TemperatureNew(device_id) == [res |-> "Ok", device_path |-> device_id]

\* Temperature::read_temp_raw: fs::read_to_string, its error mapped to ReadError
ReadTempRaw(file) ==
    IF file.ok THEN [res |-> "Ok", data |-> file.data] ELSE [res |-> "Err", data |-> <<>>]

\* data.find("t="): position of the first occurrence scanning from the
\* front, 0 when there is none (positions count from 1).
RECURSIVE FindFrom(_, _)
FindFrom(data, p) ==
    IF p + 1 > Len(data) THEN 0
    ELSE IF data[p] = "t" /\ data[p + 1] = "=" THEN p
    ELSE FindFrom(data, p + 1)

Find(data) == FindFrom(data, 1)

\* str::trim: leading, then trailing whitespace is removed.
RECURSIVE TrimStart(_)
TrimStart(str) ==
    IF Len(str) > 0 /\ str[1] \in Whitespace THEN TrimStart(Tail(str)) ELSE str

RECURSIVE TrimEnd(_)
TrimEnd(str) ==
    IF Len(str) > 0 /\ str[Len(str)] \in Whitespace
    THEN TrimEnd(SubSeq(str, 1, Len(str) - 1)) ELSE str

Trim(str) == TrimEnd(TrimStart(str))

DigitValue(c) == IF c = "2" THEN 2 ELSE 7

\* str::parse::<f32> over these characters: a non-empty run of digits is a
\* number, anything else (the empty string included) is an error.
RECURSIVE ParseFrom(_, _)
ParseFrom(str, acc) ==
    IF Len(str) = 0 THEN [res |-> "Ok", val |-> acc]
    ELSE IF str[1] \in Digits THEN ParseFrom(Tail(str), 10 * acc + DigitValue(str[1]))
    ELSE [res |-> "Err", val |-> 0]

ParseF32(str) == IF Len(str) = 0 THEN [res |-> "Err", val |-> 0] ELSE ParseFrom(str, 0)

\* format!("{:.2} degC", milli / 1000.0): the hundredths shown, rounded to
\* nearest (no number made of the digits 2 and 7 falls on a tie).
FormatCelsius(milli) == TempText((milli + 5) \div 10)

\* Variant of TemperatureRead: the text after the marker is parsed untrimmed.
TemperatureReadNoTrim(file) ==
    LET raw == ReadTempRaw(file)
    IN  IF raw.res = "Err" THEN [res |-> "Err", v |-> NoValue]
        ELSE LET eq_pos == Find(raw.data)
             IN  IF eq_pos = 0 THEN [res |-> "Err", v |-> NoValue]
                 ELSE IF eq_pos + 1 > Len(raw.data) THEN [res |-> "Panic", v |-> NoValue]
                 ELSE LET temp_str == SubSeq(raw.data, eq_pos + 2, Len(raw.data))
                          parsed   == ParseF32(temp_str)
                      IN  IF parsed.res = "Err" THEN [res |-> "Err", v |-> NoValue]
                          ELSE [res |-> "Ok", v |-> FormatCelsius(parsed.val)]

\* Temperature::read; &data[eq_pos + 2..] panics when the index is past the end.
TemperatureRead(file) ==
    LET raw == ReadTempRaw(file)
    IN  IF raw.res = "Err" THEN [res |-> "Err", v |-> NoValue]
        ELSE LET eq_pos == Find(raw.data)
             IN  IF eq_pos = 0 THEN [res |-> "Err", v |-> NoValue]
                 ELSE IF eq_pos + 1 > Len(raw.data) THEN [res |-> "Panic", v |-> NoValue]
                 ELSE LET temp_str == Trim(SubSeq(raw.data, eq_pos + 2, Len(raw.data)))
                          parsed   == ParseF32(temp_str)
                      IN  IF parsed.res = "Err" THEN [res |-> "Err", v |-> NoValue]
                          ELSE [res |-> "Ok", v |-> FormatCelsius(parsed.val)]

VARIABLES
    pc,         \* position of run: "new", "iter", "send", "acts", "sleep"
    sensors,    \* self.sensors
    actuators,  \* self.actuators
    interval,   \* self.interval, in seconds
    actState,   \* private state of each actuator object
    i,          \* sensors consumed by the for loop in this cycle
    j,          \* actuators consumed by the inner for loop for the current value
    output,     \* the value bound by Ok(output)
    elapsed,    \* seconds spent in the current (or last) sleep
    log,        \* capability calls made in the current cycle, in order
    prevFailed, \* TRUE iff a read, send or execute failed in the previous cycle
    built,      \* the arguments new was called with
    dev,        \* the concrete sensors' fields and the hardware they look at
    twin        \* a pair of controllers stepped side by side

vars == << pc, sensors, actuators, interval, actState, i, j, output,
           elapsed, log, prevFailed, built, dev, twin >>

config == << sensors, actuators, interval >>

\* ------------------------------------------------------------ call log
Event(op, s, a, v, res) == [op |-> op, s |-> s, a |-> a, v |-> v, res |-> res]

AnyFailure(l) == \E k \in 1..Len(l) : l[k].res = "Err"

\* ------------------------------------------------------- DummyActuator
\* Variant of DummyExecute: raw bytes are refused.
DummyExecuteRejectsBytes(st, command) ==
    [res |-> IF command.tag = "Bytes" THEN "Err" ELSE "Ok", st |-> st]

\* fn execute(&mut self, _command) -> Result<(), ActuatorError> { Ok(()) }
DummyExecute(st, command) == [res |-> "Ok", st |-> st]

\* Outcomes of Actuator::execute for an actuator of the given kind.
Execute(kind, st, command) ==
    IF kind = "dummy"
    THEN { DummyExecute(st, command) }
    ELSE { [res |-> r, st |-> t] : r \in {"Ok", "Err"}, t \in 0..MaxActState }

\* if let Some(acts) = &mut self.actuators { for a in acts.iter_mut() ... }
NumActs == IF actuators.some THEN Len(actuators.list) ELSE 0

\* ------------------------------------------------------------------ Init
Init ==
    /\ pc = "new"
    /\ sensors = <<>>
    /\ actuators = NoActuators
    /\ interval = 0
    /\ actState = <<>>
    /\ i = 0
    /\ j = 0
    /\ output = NoValue
    /\ elapsed = 0
    /\ log = <<>>
    /\ prevFailed = FALSE
    /\ built = << <<>>, NoActuators, 0 >>
    /\ dev = NoDevices
    /\ twin = <<>>

\* RuntimeController::new(sensors, actuators, communicator, interval)
\* followed by the call of run.
New(ss, acts, secs) ==
    /\ pc = "new"
    /\ sensors' = ss
    /\ actuators' = acts
    /\ interval' = secs
    /\ actState' = [k \in 1..Len(acts.list) |-> 0]
    /\ built' = << ss, acts, secs >>
    /\ pc' = "iter"
    /\ UNCHANGED << i, j, output, elapsed, log, prevFailed, dev, twin >>

\* Variant of ReadOk: the sensor list is walked from its end.
ReadOkReversed(v) ==
    /\ pc = "iter"
    /\ i < Len(sensors)
    /\ i' = i + 1
    /\ output' = v
    /\ log' = Append(log, Event("read", Len(sensors) - i, 0, v, "Ok"))
    /\ pc' = "send"
    /\ UNCHANGED << sensors, actuators, interval, actState, j, elapsed, prevFailed, built, dev, twin >>

\* Variant of ReadOk: the loop bound is off by one (i <= len).
ReadOkOffByOne(v) ==
    /\ pc = "iter"
    /\ i <= Len(sensors)
    /\ i' = i + 1
    /\ output' = v
    /\ log' = Append(log, Event("read", i + 1, 0, v, "Ok"))
    /\ pc' = "send"
    /\ UNCHANGED << sensors, actuators, interval, actState, j, elapsed, prevFailed, built, dev, twin >>

\* Variant of ReadOk: the actuators are driven before the value is sent.
ReadOkActuatesFirst(v) ==
    /\ pc = "iter"
    /\ i < Len(sensors)
    /\ i' = i + 1
    /\ output' = v
    /\ log' = Append(log, Event("read", i + 1, 0, v, "Ok"))
    /\ j' = 0
    /\ pc' = IF NumActs > 0 THEN "acts" ELSE "send"
    /\ UNCHANGED << sensors, actuators, interval, actState, elapsed, prevFailed, built, dev, twin >>

\* s.read() returns Ok(output)
ReadOk(v) ==
    /\ pc = "iter"
    /\ i < Len(sensors)
    /\ i' = i + 1
    /\ output' = v
    /\ log' = Append(log, Event("read", i + 1, 0, v, "Ok"))
    /\ pc' = "send"
    /\ UNCHANGED << sensors, actuators, interval, actState, j, elapsed, prevFailed, built, dev, twin >>

\* Variant of ReadErr: the error leaves the for loop (break).
ReadErrBreak ==
    /\ pc = "iter"
    /\ i < Len(sensors)
    /\ i' = Len(sensors)
    /\ output' = NoValue
    /\ log' = Append(log, Event("read", i + 1, 0, NoValue, "Err"))
    /\ pc' = "iter"
    /\ UNCHANGED << sensors, actuators, interval, actState, j, elapsed, prevFailed, built, dev, twin >>

\* Variant of ReadErr: the error falls through to the send with no value.
ReadErrFallThrough ==
    /\ pc = "iter"
    /\ i < Len(sensors)
    /\ i' = i + 1
    /\ output' = NoValue
    /\ log' = Append(log, Event("read", i + 1, 0, NoValue, "Err"))
    /\ pc' = "send"
    /\ UNCHANGED << sensors, actuators, interval, actState, j, elapsed, prevFailed, built, dev, twin >>

\* Variant of ReadErr: a sensor whose read failed is taken out of the list.
ReadErrDropsSensor ==
    /\ pc = "iter"
    /\ i < Len(sensors)
    /\ sensors' = SubSeq(sensors, 1, i) \o SubSeq(sensors, i + 2, Len(sensors))
    /\ output' = NoValue
    /\ log' = Append(log, Event("read", i + 1, 0, NoValue, "Err"))
    /\ pc' = "iter"
    /\ UNCHANGED << actuators, interval, actState, i, j, elapsed, prevFailed, built, dev, twin >>

\* s.read() returns Err(e): report it, next sensor
ReadErr ==
    /\ pc = "iter"
    /\ i < Len(sensors)
    /\ i' = i + 1
    /\ output' = NoValue
    /\ log' = Append(log, Event("read", i + 1, 0, NoValue, "Err"))
    /\ pc' = "iter"
    /\ UNCHANGED << sensors, actuators, interval, actState, j, elapsed, prevFailed, built, dev, twin >>

\* Variant of Send: a failed send skips the actuators (continue).
SendErrSkipsActuators(res) ==
    /\ pc = "send"
    /\ log' = Append(log, Event("send", i, 0, output, res))
    /\ j' = 0
    /\ IF NumActs > 0 /\ res = "Ok"
       THEN pc' = "acts" /\ output' = output
       ELSE pc' = "iter" /\ output' = NoValue
    /\ UNCHANGED << sensors, actuators, interval, actState, i, elapsed, prevFailed, built, dev, twin >>

\* Variant of Send: the communicator is handed the value itself, not a
\* clone, and what it writes into it is what the actuators then see.
SendSharesValue(res) ==
    /\ pc = "send"
    /\ log' = Append(log, Event("send", i, 0, output, res))
    /\ j' = 0
    /\ IF NumActs > 0
       THEN pc' = "acts" /\ output' \in Readings
       ELSE pc' = "iter" /\ output' = NoValue
    /\ UNCHANGED << sensors, actuators, interval, actState, i, elapsed, prevFailed, built, dev, twin >>

\* Variant of Send: a failed send is tried again at once.
SendRetriesOnError(res) ==
    /\ pc = "send"
    /\ log' = Append(log, Event("send", i, 0, output, res))
    /\ j' = 0
    /\ IF res = "Err"
       THEN pc' = "send" /\ output' = output
       ELSE IF NumActs > 0
            THEN pc' = "acts" /\ output' = output
            ELSE pc' = "iter" /\ output' = NoValue
    /\ UNCHANGED << sensors, actuators, interval, actState, i, elapsed, prevFailed, built, dev, twin >>

\* self.communicator.send(output.clone()); an Err is only reported
Send(res) ==
    /\ pc = "send"
    /\ log' = Append(log, Event("send", i, 0, output, res))
    /\ j' = 0
    /\ IF NumActs > 0
       THEN pc' = "acts" /\ output' = output
       ELSE pc' = "iter" /\ output' = NoValue
    /\ UNCHANGED << sensors, actuators, interval, actState, i, elapsed, prevFailed, built, dev, twin >>

\* Variant of Exec: a failed execute leaves the actuator loop (break).
ExecErrBreak(o) ==
    /\ pc = "acts"
    /\ j < NumActs
    /\ o \in Execute(actuators.list[j + 1], actState[j + 1], output)
    /\ actState' = [actState EXCEPT ![j + 1] = o.st]
    /\ log' = Append(log, Event("exec", i, j + 1, output, o.res))
    /\ j' = j + 1
    /\ IF j + 1 < NumActs /\ o.res = "Ok"
       THEN pc' = "acts" /\ output' = output
       ELSE pc' = "iter" /\ output' = NoValue
    /\ UNCHANGED << sensors, actuators, interval, i, elapsed, prevFailed, built, dev, twin >>

\* a.execute(output.clone()) on the next actuator; an Err is only reported
Exec(o) ==
    /\ pc = "acts"
    /\ j < NumActs
    /\ o \in Execute(actuators.list[j + 1], actState[j + 1], output)
    /\ actState' = [actState EXCEPT ![j + 1] = o.st]
    /\ log' = Append(log, Event("exec", i, j + 1, output, o.res))
    /\ j' = j + 1
    /\ IF j + 1 < NumActs
       THEN pc' = "acts" /\ output' = output
       ELSE pc' = "iter" /\ output' = NoValue
    /\ UNCHANGED << sensors, actuators, interval, i, elapsed, prevFailed, built, dev, twin >>

\* the for loop over the sensors is exhausted: sleep(self.interval)
BeginSleep ==
    /\ pc = "iter"
    /\ i = Len(sensors)
    /\ pc' = "sleep"
    /\ elapsed' = 0
    /\ log' = Append(log, Event("sleep", 0, 0, NoValue, "Ok"))
    /\ UNCHANGED << sensors, actuators, interval, actState, i, j, output, prevFailed, built, dev, twin >>

\* one second passes while the task is suspended
Tick ==
    /\ pc = "sleep"
    /\ elapsed < interval
    /\ elapsed' = elapsed + 1
    /\ UNCHANGED << pc, sensors, actuators, interval, actState, i, j, output, log, prevFailed, built, dev, twin >>

\* Variant of Wake: run returns after the sleep instead of looping.
WakeReturns ==
    /\ pc = "sleep"
    /\ elapsed >= interval
    /\ pc' = "done"
    /\ UNCHANGED << sensors, actuators, interval, actState, i, j, output, elapsed, log,
                    prevFailed, built, dev, twin >>

\* Variant of Wake: after a cycle with a failure the sensors are not polled.
WakeSkipsAfterFailure ==
    /\ pc = "sleep"
    /\ elapsed >= interval
    /\ pc' = "iter"
    /\ i' = IF AnyFailure(log) THEN Len(sensors) ELSE 0
    /\ j' = 0
    /\ log' = <<>>
    /\ prevFailed' = AnyFailure(log)
    /\ UNCHANGED << sensors, actuators, interval, actState, output, elapsed, built, dev, twin >>

\* the sleep completes: back to the top of loop { }
Wake ==
    /\ pc = "sleep"
    /\ elapsed >= interval
    /\ pc' = "iter"
    /\ i' = 0
    /\ j' = 0
    /\ log' = <<>>
    /\ prevFailed' = AnyFailure(log)
    /\ UNCHANGED << sensors, actuators, interval, actState, output, elapsed, built, dev, twin >>

Next ==
    \/ \E ss \in SeqsUpTo(SensorKinds, MaxSensors),
          acts \in {NoActuators} \cup { SomeActuators(l) : l \in SeqsUpTo(ActuatorKinds, MaxActuators) },
          secs \in 0..MaxInterval : New(ss, acts, secs)
    \/ \E v \in Readings : ReadOk(v)
    \/ ReadErr
    \/ \E res \in {"Ok", "Err"} : Send(res)
    \/ \E o \in [res : {"Ok", "Err"}, st : 0..MaxActState] : Exec(o)
    \/ BeginSleep
    \/ Tick
    \/ Wake

Spec == Init /\ [][Next]_vars

\* The task is scheduled and every capability call returns.
FairSpec == Spec /\ WF_vars(Next)

\* ------------------------------------------- a DummyActuator on its own
\* A lone DummyActuator::new() that is fed arbitrary commands.
DummyInit ==
    /\ pc = "dummy"
    /\ sensors = <<>>
    /\ actuators = SomeActuators(<< "dummy" >>)
    /\ interval = 0
    /\ actState = << 0 >>
    /\ i = 0
    /\ j = 0
    /\ output = NoValue
    /\ elapsed = 0
    /\ log = <<>>
    /\ prevFailed = FALSE
    /\ built = << <<>>, NoActuators, 0 >>
    /\ dev = NoDevices
    /\ twin = <<>>

\* actuator.execute(command)
DummyCall(command) ==
    /\ pc = "dummy"
    /\ Len(log) < MaxCalls
    /\ LET o == DummyExecute(actState[1], command)
       IN  /\ actState' = [actState EXCEPT ![1] = o.st]
           /\ log' = Append(log, Event("exec", 0, 1, command, o.res))
    /\ UNCHANGED << pc, sensors, actuators, interval, i, j, output, elapsed, prevFailed, built, dev, twin >>

DummyNext == \E command \in SensorOutput : DummyCall(command)

DummySpec == DummyInit /\ [][DummyNext]_vars

\* --------------------------------------------- a RainSensor on its own
\* RainSensor::new(pin, active_low) succeeded; the pin level is then read
\* again and again while the water comes and goes.
RainInit ==
    /\ pc = "rain"
    /\ sensors = << "rain" >>
    /\ actuators = NoActuators
    /\ interval = 0
    /\ actState = <<>>
    /\ i = 0
    /\ j = 0
    /\ output = NoValue
    /\ elapsed = 0
    /\ log = <<>>
    /\ prevFailed = FALSE
    /\ twin = <<>>
    /\ \E pin \in {4, 17}, active_low \in BOOLEAN, level \in {"High", "Low"} :
          LET made == RainSensorNew(pin, active_low, TRUE)
          IN  /\ built = << pin, active_low >>
              /\ dev = [NoDevices EXCEPT !.pinNumber = made.pinNumber,
                                         !.activeLow = made.activeLow,
                                         !.level = level]

\* the pin is at `level` when sensor.read() is called
RainReadCall(level) ==
    /\ pc = "rain"
    /\ Len(log) < MaxCalls
    /\ dev' = [dev EXCEPT !.level = level]
    /\ LET r == RainRead(dev.activeLow, level)
       IN  /\ output' = r.v
           /\ log' = Append(log, Event("read", 1, 0, r.v, r.res))
    /\ UNCHANGED << pc, sensors, actuators, interval, actState, i, j, elapsed, prevFailed,
                    built, twin >>

RainNext == \E level \in {"High", "Low"} : RainReadCall(level)

RainSpec == RainInit /\ [][RainNext]_vars

\* --------------------------------------------- a Temperature on its own
\* Every w1_slave content of up to MaxFileLen characters, and the unreadable file.
Files == { Unreadable } \cup { Readable(d) : d \in SeqsUpTo(Chars, MaxFileLen) }

\* Temperature::new(device_id) always succeeds; the device file is in any state.
TempInit ==
    /\ pc = "temp"
    /\ sensors = << "temperature" >>
    /\ actuators = NoActuators
    /\ interval = 0
    /\ actState = <<>>
    /\ i = 0
    /\ j = 0
    /\ output = NoValue
    /\ elapsed = 0
    /\ log = <<>>
    /\ prevFailed = FALSE
    /\ built = << "28-00000b0e60f1" >>
    /\ twin = <<>>
    /\ \E f \in Files : dev = [NoDevices EXCEPT !.file = f]

\* sensor.read()
TempReadCall ==
    /\ pc = "temp"
    /\ pc' = "tempDone"
    /\ LET r == TemperatureRead(dev.file)
       IN  /\ output' = r.v
           /\ log' = Append(log, Event("read", 1, 0, r.v, r.res))
    /\ UNCHANGED << sensors, actuators, interval, actState, i, j, elapsed, prevFailed,
                    built, dev, twin >>

TempNext == TempReadCall

TempSpec == TempInit /\ [][TempNext]_vars

\* --------------------------------------- two controllers side by side
\* The controller as a value: the fields of RuntimeController and the
\* position of its run.
NewCtl(ss, acts, secs) ==
    [ pc |-> "iter", sensors |-> ss, actuators |-> acts, interval |-> secs,
      actState |-> [k \in 1..Len(acts.list) |-> 0],
      i |-> 0, j |-> 0, output |-> NoValue, elapsed |-> 0, log |-> <<>> ]

\* if let Some(acts) = &mut self.actuators { for a in acts.iter_mut() ... }
ActsOf(c) == IF c.actuators.some THEN Len(c.actuators.list) ELSE 0

\* Variant of AfterSend: the actuator branch is taken whenever the option is Some.
AfterSendOnSome(c) == IF c.actuators.some THEN "acts" ELSE "iter"

\* Where run continues once send has returned.
AfterSend(c) == IF ActsOf(c) > 0 THEN "acts" ELSE "iter"

\* What the devices and the communicator can answer; "none" is a step of
\* run that waits for no answer (entering the sleep, a second of sleep,
\* waking up).
Outcomes ==
    { [op |-> "read", v |-> v, res |-> "Ok", st |-> 0] : v \in Readings }
    \cup { [op |-> "read", v |-> NoValue, res |-> "Err", st |-> 0] }
    \cup { [op |-> "send", v |-> NoValue, res |-> r, st |-> 0] : r \in {"Ok", "Err"} }
    \cup { [op |-> "exec", v |-> NoValue, res |-> r, st |-> t] : r \in {"Ok", "Err"}, t \in 0..MaxActState }
    \cup { [op |-> "none", v |-> NoValue, res |-> "Ok", st |-> 0] }

\* The kind of answer run is waiting for at its position.
Waiting(c) ==
    CASE c.pc = "iter" /\ c.i < Len(c.sensors) -> "read"
      [] c.pc = "iter" /\ c.i = Len(c.sensors) -> "none"
      [] c.pc = "send" -> "send"
      [] c.pc = "acts" /\ c.j < ActsOf(c) -> "exec"
      [] c.pc = "sleep" -> "none"
      [] OTHER -> "stuck"

\* One step of run on controller c when the answer is `in`; a controller
\* that is handed an answer it is not waiting for has left the common path.
RunStep(c, in) ==
    IF in.op # Waiting(c) THEN [c EXCEPT !.pc = "diverged"]
    ELSE CASE in.op = "read" /\ in.res = "Ok" ->
                [c EXCEPT !.i = c.i + 1, !.output = in.v, !.pc = "send",
                          !.log = Append(c.log, Event("read", c.i + 1, 0, in.v, "Ok"))]
           [] in.op = "read" /\ in.res = "Err" ->
                [c EXCEPT !.i = c.i + 1, !.output = NoValue, !.pc = "iter",
                          !.log = Append(c.log, Event("read", c.i + 1, 0, NoValue, "Err"))]
           [] in.op = "send" ->
                [c EXCEPT !.j = 0,
                          !.log = Append(c.log, Event("send", c.i, 0, c.output, in.res)),
                          !.pc = AfterSend(c),
                          !.output = IF AfterSend(c) = "acts" THEN c.output ELSE NoValue]
           [] in.op = "exec" ->
                IF [res |-> in.res, st |-> in.st]
                      \notin Execute(c.actuators.list[c.j + 1], c.actState[c.j + 1], c.output)
                THEN [c EXCEPT !.pc = "diverged"]
                ELSE [c EXCEPT !.actState[c.j + 1] = in.st,
                               !.log = Append(c.log, Event("exec", c.i, c.j + 1, c.output, in.res)),
                               !.j = c.j + 1,
                               !.pc = IF c.j + 1 < ActsOf(c) THEN "acts" ELSE "iter",
                               !.output = IF c.j + 1 < ActsOf(c) THEN c.output ELSE NoValue]
           [] in.op = "none" /\ c.pc = "iter" ->
                [c EXCEPT !.pc = "sleep", !.elapsed = 0,
                          !.log = Append(c.log, Event("sleep", 0, 0, NoValue, "Ok"))]
           [] in.op = "none" /\ c.pc = "sleep" /\ c.elapsed < c.interval ->
                [c EXCEPT !.elapsed = c.elapsed + 1]
           [] in.op = "none" /\ c.pc = "sleep" /\ c.elapsed >= c.interval ->
                [c EXCEPT !.pc = "iter", !.i = 0, !.j = 0, !.log = <<>>]

\* Two controllers built from the same sensors, communicator and interval,
\* one with actuators = None, the other with Some(vec![]).
EquivInit ==
    /\ pc = "equiv"
    /\ sensors = <<>>
    /\ actuators = NoActuators
    /\ interval = 0
    /\ actState = <<>>
    /\ i = 0
    /\ j = 0
    /\ output = NoValue
    /\ elapsed = 0
    /\ log = <<>>
    /\ prevFailed = FALSE
    /\ built = << <<>>, NoActuators, 0 >>
    /\ dev = NoDevices
    /\ \E ss \in SeqsUpTo(SensorKinds, MaxSensors), secs \in 0..MaxInterval :
          twin = [ a |-> NewCtl(ss, NoActuators, secs),
                   b |-> NewCtl(ss, SomeActuators(<<>>), secs) ]

\* Both controllers take a step of run on the same answer, the one the
\* first controller is waiting for.
EquivStep(in) ==
    /\ pc = "equiv"
    /\ in.op = Waiting(twin.a)
    /\ twin' = [a |-> RunStep(twin.a, in), b |-> RunStep(twin.b, in)]
    /\ UNCHANGED << pc, sensors, actuators, interval, actState, i, j, output, elapsed, log,
                    prevFailed, built, dev >>

EquivNext == \E in \in Outcomes : EquivStep(in)

EquivSpec == EquivInit /\ [][EquivNext]_vars

\* ------------------------------------------------------------------ main
\* Device files the temperature sensor meets while the program runs.
SampleFiles ==
    { Unreadable,
      Readable(<< "x" >>),
      Readable(<< "t", "=", "2", "7", "nl" >>),
      Readable(<< "t", "=", "2", "2", "nl" >>) }

\* The process starts; the GPIO can be opened or not.
MainInit ==
    /\ pc = "main"
    /\ sensors = <<>>
    /\ actuators = NoActuators
    /\ interval = 0
    /\ actState = <<>>
    /\ i = 0
    /\ j = 0
    /\ output = NoValue
    /\ elapsed = 0
    /\ log = <<>>
    /\ prevFailed = FALSE
    /\ built = << <<>>, NoActuators, 0 >>
    /\ twin = <<>>
    /\ \E g \in BOOLEAN : dev = [NoDevices EXCEPT !.gpioOk = g]

\* let temp = Temperature::new(..).unwrap(); let rain = RainSensor::new(17, true).unwrap();
\* unwrap of an Err panics and the process ends.
MainSensors ==
    /\ pc = "main"
    /\ LET temp == TemperatureNew("28-00000b0e60f1")
           rain == RainSensorNew(17, TRUE, dev.gpioOk)
       IN  IF temp.res = "Err" \/ rain.res = "Err"
           THEN pc' = "panicked" /\ dev' = dev
           ELSE /\ pc' = "new"
                /\ dev' = [dev EXCEPT !.pinNumber = rain.pinNumber, !.activeLow = rain.activeLow]
    /\ UNCHANGED << sensors, actuators, interval, actState, i, j, output, elapsed, log,
                    prevFailed, built, twin >>

\* s.read() on the temperature or the rain sensor, whatever the file and the
\* pin are at that moment.
MainRead ==
    \E f \in SampleFiles, level \in {"High", "Low"} :
       /\ pc = "iter"
       /\ i < Len(sensors)
       /\ LET r == IF sensors[i + 1] = "temperature"
                   THEN TemperatureRead(f)
                   ELSE RainRead(dev.activeLow, level)
          IN  IF r.res = "Ok" THEN ReadOk(r.v) ELSE ReadErr

MainNext ==
    \/ MainSensors
    \/ New(<< "temperature", "rain" >>, NoActuators, 5)
    \/ MainRead
    \/ \E res \in {"Ok", "Err"} : Send(res)
    \/ BeginSleep
    \/ Tick
    \/ Wake

MainSpec == MainInit /\ [][MainNext]_vars

\* ------------------------------------------------------------ properties
\* Calls of one kind in a log, in order.
Calls(l, op) == SelectSeq(l, LAMBDA e : e.op = op)

\* Positions of a log.
Pos(l) == 1..Len(l)

\* Sensor s is read at some position after k of the log.
ReadAfter(l, k, s) == \E m \in Pos(l) : m > k /\ l[m].op = "read" /\ l[m].s = s

\* Actuator a executes value v for sensor s at some position after k.
ExecAfter(l, k, s, a, v) ==
    \E m \in Pos(l) : m > k /\ l[m].op = "exec" /\ l[m].s = s /\ l[m].a = a /\ l[m].v = v

\* C1: at the end of every cycle, for every sensor whose read failed, every
\* sensor registered after it has been read later in that same cycle, and the
\* loop is at one of its ordinary positions.
C1_ReadFailureDoesNotStopCycle ==
    /\ pc \in {"new", "iter", "send", "acts", "sleep"}
    /\ pc = "sleep" =>
         \A k \in Pos(log) :
            (log[k].op = "read" /\ log[k].res = "Err") =>
               \A s \in (log[k].s + 1)..Len(sensors) : ReadAfter(log, k, s)

C1_Witness ==
    /\ pc = "sleep"
    /\ Len(sensors) = 2
    /\ log[1] = Event("read", 1, 0, NoValue, "Err")
    /\ ReadAfter(log, 1, 2)

\* C2: at the end of every cycle, for every send of a value V that failed,
\* execute(V) was invoked afterwards on every configured actuator for that
\* sensor, and every later sensor was read.
C2_SendFailureDoesNotStopActuation ==
    pc = "sleep" =>
       \A k \in Pos(log) :
          (log[k].op = "send" /\ log[k].res = "Err") =>
             /\ \A a \in 1..NumActs : ExecAfter(log, k, log[k].s, a, log[k].v)
             /\ \A s \in (log[k].s + 1)..Len(sensors) : ReadAfter(log, k, s)

C2_Witness ==
    /\ pc = "sleep"
    /\ Len(sensors) = 2
    /\ NumActs = 2
    /\ log[2].op = "send" /\ log[2].res = "Err" /\ log[2].s = 1
    /\ ExecAfter(log, 2, 1, 1, log[2].v)
    /\ ExecAfter(log, 2, 1, 2, log[2].v)
    /\ ReadAfter(log, 2, 2)

\* C3: at the end of every cycle, for every execute of a value V on actuator
\* j that failed, execute(V) was invoked afterwards on every actuator
\* registered after j for the same sensor, and every later sensor was read.
C3_ActuatorFailureDoesNotStopOthers ==
    pc = "sleep" =>
       \A k \in Pos(log) :
          (log[k].op = "exec" /\ log[k].res = "Err") =>
             /\ \A a \in (log[k].a + 1)..NumActs : ExecAfter(log, k, log[k].s, a, log[k].v)
             /\ \A s \in (log[k].s + 1)..Len(sensors) : ReadAfter(log, k, s)

C3_Witness ==
    /\ pc = "sleep"
    /\ Len(sensors) = 2
    /\ NumActs = 2
    /\ log[3].op = "exec" /\ log[3].res = "Err" /\ log[3].s = 1 /\ log[3].a = 1
    /\ ExecAfter(log, 3, 1, 2, log[3].v)
    /\ ReadAfter(log, 3, 2)

\* C4: a sensor whose read failed in the cycle has no send and no execute
\* made on its behalf in that cycle, and when the cycle's sensors are done the
\* communicator has received exactly one send per successful read.
C4_FailedReadIsSkipped ==
    /\ \A k \in Pos(log) :
          (log[k].op = "read" /\ log[k].res = "Err") =>
             \A m \in Pos(log) : log[m].op \in {"send", "exec"} => log[m].s # log[k].s
    /\ pc = "sleep" =>
          Len(Calls(log, "send")) = Len(SelectSeq(Calls(log, "read"), LAMBDA e : e.res = "Ok"))

\* Sensor A succeeds, sensor B fails: one send (A's value), nothing for B,
\* and the loop is asleep.
C4_Witness ==
    /\ pc = "sleep"
    /\ Len(sensors) = 2
    /\ log[1] = Event("read", 1, 0, [tag |-> "Float", val |-> 2150], "Ok")
    /\ Len(Calls(log, "send")) = 1
    /\ Calls(log, "send")[1].v = [tag |-> "Float", val |-> 2150]
    /\ Calls(log, "read")[2] = Event("read", 2, 0, NoValue, "Err")
    /\ log[Len(log)].op = "sleep"

\* Values of the events of a log, in order.
ValuesOf(l) == [k \in Pos(l) |-> l[k].v]

\* C5: the k-th read of a cycle is the read of the k-th registered sensor,
\* and the values sent so far in the cycle are the successfully read values
\* in the same order (the value just read is the only one not yet sent).
C5_RegistrationOrder ==
    LET reads == Calls(log, "read")
        oks   == ValuesOf(SelectSeq(reads, LAMBDA e : e.res = "Ok"))
        sent  == ValuesOf(Calls(log, "send"))
    IN  /\ \A k \in Pos(reads) : reads[k].s = k
        /\ Len(sent) = Len(oks) - (IF pc = "send" THEN 1 ELSE 0)
        /\ \A k \in Pos(sent) : sent[k] = oks[k]

C5_Witness ==
    /\ pc = "sleep"
    /\ Len(sensors) = 2
    /\ ValuesOf(Calls(log, "send")) = << [tag |-> "Text", val |-> 3], [tag |-> "Bool", val |-> 1] >>

\* C6: no orchestrator with interval = 0 is ever built and run.
C6_ZeroIntervalRejected == pc # "new" => interval > 0

\* A new cycle is at its first step: nothing read, nothing logged.
CycleStart == pc = "iter" /\ i = 0 /\ log = <<>>

\* C7: run starts at the sensor pass, not at the sleep; the sleep is entered
\* only when every sensor of the cycle has been processed and happens once per
\* cycle; it ends only when the configured interval has elapsed and is
\* followed by the start of a new cycle; and a new cycle starts again and
\* again, whatever failed.
C7_LoopNeverEnds ==
    /\ [][pc = "new" => CycleStart']_vars
    /\ [](pc = "sleep" => i = Len(sensors))
    /\ [](Len(Calls(log, "sleep")) = (IF pc = "sleep" THEN 1 ELSE 0))
    /\ [][(pc = "sleep" /\ pc' # "sleep") => (elapsed = interval /\ CycleStart')]_vars
    /\ []<>CycleStart

\* A new cycle has started after a cycle in which something failed.
C7_Witness == CycleStart /\ prevFailed /\ Len(sensors) = 2 /\ NumActs = 2

\* C8: with zero sensors and zero actuators (None or an empty list) no read,
\* send or execute is ever made: the loop is either at its (empty) sensor
\* pass or asleep.
C8_IdleLoop ==
    (pc # "new" /\ Len(built[1]) = 0 /\ Len(built[2].list) = 0) =>
       /\ pc \in {"iter", "sleep"}
       /\ \A k \in Pos(log) : log[k].op = "sleep"

\* The idle loop has slept a whole interval at least once and sleeps again.
C8_Witness ==
    /\ pc = "sleep"
    /\ Len(built[1]) = 0
    /\ built[2] = SomeActuators(<<>>)
    /\ interval = 1
    /\ elapsed = interval

\* Number of reads of sensor s in a log.
ReadCount(l, s) == Cardinality({ k \in Pos(l) : l[k].op = "read" /\ l[k].s = s })

\* C9: at the end of every cycle, whatever happened in earlier cycles, every
\* sensor the orchestrator was built with has been read exactly once, every
\* successful read has been sent and executed on every actuator it was built
\* with, and no device has left the configuration.
C9_EveryDeviceEveryCycle ==
    pc = "sleep" =>
       /\ config = built
       /\ \A s \in 1..Len(built[1]) : ReadCount(log, s) = 1
       /\ \A k \in Pos(log) :
             (log[k].op = "read" /\ log[k].res = "Ok") =>
                /\ \E m \in Pos(log) : log[m].op = "send" /\ log[m].s = log[k].s
                /\ \A a \in 1..Len(built[2].list) : ExecAfter(log, k, log[k].s, a, log[k].v)

\* The cycle after a cycle with a failure: both sensors were read again and
\* both actuators executed again.
C9_Witness ==
    /\ pc = "sleep"
    /\ prevFailed
    /\ Len(sensors) = 2
    /\ NumActs = 2
    /\ ReadCount(log, 1) = 1
    /\ ReadCount(log, 2) = 1
    /\ Len(Calls(log, "exec")) = 4

\* C10: every command given to a DummyActuator, whatever its variant, returns
\* Ok, and the actuator is in the state it was constructed in.
C10_DummyIsNoOp ==
    /\ \A k \in Pos(log) : log[k].res = "Ok"
    /\ actState = << 0 >>

\* The five variants have all been executed.
C10_Witness ==
    /\ pc = "dummy"
    /\ { log[k].v.tag : k \in Pos(log) } = {"Bool", "Int", "Float", "Text", "Bytes"}

\* The next sensor's read, or the end-of-cycle sleep, follows event e.
NextSensorFollows(e, n) ==
    \/ n.op = "read" /\ n.s = e.s + 1
    \/ n.op = "sleep" /\ e.s = Len(sensors)

\* Event n may directly follow event e in a cycle.
Follows(e, n) ==
    CASE e.op = "read" /\ e.res = "Ok"  -> n.op = "send" /\ n.s = e.s
      [] e.op = "read" /\ e.res = "Err" -> NextSensorFollows(e, n)
      [] e.op = "send" ->
            IF NumActs > 0 THEN n.op = "exec" /\ n.s = e.s /\ n.a = 1
                           ELSE NextSensorFollows(e, n)
      [] e.op = "exec" ->
            IF e.a < NumActs THEN n.op = "exec" /\ n.s = e.s /\ n.a = e.a + 1
                             ELSE NextSensorFollows(e, n)
      [] OTHER -> FALSE

\* The position of run after event e, when e is the last call made.
PcAfter(e) ==
    CASE e.op = "read" /\ e.res = "Ok" -> "send"
      [] e.op = "send" /\ NumActs > 0 -> "acts"
      [] e.op = "exec" /\ e.a < NumActs -> "acts"
      [] e.op = "sleep" -> "sleep"
      [] OTHER -> "iter"

\* C11: the calls of a cycle form one sequence in which a successful read of
\* a sensor is directly followed by the send of its value, then by execute on
\* actuators 1, 2, ... in registration order, and only then by the read of the
\* next sensor or by the sleep; the loop is at the single position that
\* follows the last call made, so no call starts before the previous one
\* has returned.
C11_StrictlySequential ==
    /\ Len(log) > 0 => (log[1].op = "sleep" \/ (log[1].op = "read" /\ log[1].s = 1))
    /\ \A k \in 1..(Len(log) - 1) : Follows(log[k], log[k + 1])
    /\ Len(log) > 0 => pc = PcAfter(log[Len(log)])

C11_Witness ==
    /\ pc = "sleep"
    /\ NumActs = 2
    /\ [k \in Pos(log) |-> << log[k].op, log[k].s, log[k].a >>] =
          << << "read", 1, 0 >>, << "send", 1, 0 >>, << "exec", 1, 1 >>, << "exec", 1, 2 >>,
             << "read", 2, 0 >>, << "send", 2, 0 >>, << "exec", 2, 1 >>, << "exec", 2, 2 >>,
             << "sleep", 0, 0 >> >>

\* The value sensor s returned in the current cycle, if its read succeeded.
ReadValue(l, s) == { l[k].v : k \in { n \in Pos(l) : l[n].op = "read" /\ l[n].s = s /\ l[n].res = "Ok" } }

\* C12: every value sent and every value executed on behalf of a sensor is
\* the value that sensor's read returned earlier in the current cycle, and
\* while the calls for a sensor are pending the loop holds that same value.
C12_SameValueEverywhere ==
    /\ \A k \in Pos(log) :
          log[k].op \in {"send", "exec"} => ReadValue(SubSeq(log, 1, k), log[k].s) = { log[k].v }
    /\ pc \in {"send", "acts"} => ReadValue(log, i) = { output }

\* Two sensors returned different values; after sends that failed or not,
\* each actuator received the first value and then the second.
C12_Witness ==
    /\ pc = "sleep"
    /\ NumActs = 2
    /\ ValuesOf(Calls(log, "read")) = << [tag |-> "Float", val |-> 2150], [tag |-> "Bool", val |-> 1] >>
    /\ ValuesOf(Calls(log, "exec")) =
          << [tag |-> "Float", val |-> 2150], [tag |-> "Float", val |-> 2150],
             [tag |-> "Bool", val |-> 1], [tag |-> "Bool", val |-> 1] >>
    /\ prevFailed

\* Number of sends made for sensor s, and of executes of actuator a for s.
SendCount(l, s) == Cardinality({ k \in Pos(l) : l[k].op = "send" /\ l[k].s = s })
ExecCount(l, s, a) == Cardinality({ k \in Pos(l) : l[k].op = "exec" /\ l[k].s = s /\ l[k].a = a })

\* C13: within a cycle no sensor is read twice, no value is sent twice and no
\* actuator executes twice for the same sensor, whatever the calls returned;
\* at the end of the cycle every successful read has exactly one send and
\* exactly one execute per actuator.
C13_NoRetryWithinCycle ==
    /\ \A s \in 1..Len(sensors) :
          /\ ReadCount(log, s) <= 1
          /\ SendCount(log, s) <= 1
          /\ \A a \in 1..NumActs : ExecCount(log, s, a) <= 1
    /\ pc = "sleep" =>
          \A s \in 1..Len(sensors) :
             LET n == Cardinality(ReadValue(log, s))
             IN  /\ SendCount(log, s) = n
                 /\ \A a \in 1..NumActs : ExecCount(log, s, a) = n

\* A cycle in which a send and an execute failed, and the other sensor's
\* read failed: still one send and one execute.
C13_Witness ==
    /\ pc = "sleep"
    /\ Len(sensors) = 2
    /\ NumActs = 1
    /\ \E k \in Pos(log) : log[k].op = "send" /\ log[k].res = "Err" /\ log[k].s = 1
    /\ \E k \in Pos(log) : log[k].op = "exec" /\ log[k].res = "Err" /\ log[k].s = 1
    /\ \E k \in Pos(log) : log[k].op = "read" /\ log[k].res = "Err" /\ log[k].s = 2
    /\ SendCount(log, 1) = 1
    /\ ExecCount(log, 1, 1) = 1

\* C14: when the GPIO cannot be opened the process is not ended by it: it is
\* still starting up or inside the polling loop, where the failure shows as a
\* failed read.
C14_InitFailureIsLazy ==
    ~dev.gpioOk => pc \in {"main", "new", "iter", "send", "sleep"}

\* The pin level is the wet one under the polarity the sensor was built with.
WetLevel(active_low, level) ==
    \/ active_low /\ level = "Low"
    \/ ~active_low /\ level = "High"

\* C15: every read of the rain sensor returns Ok with one of the two texts;
\* the text of the latest read is HUMEDO exactly when the pin was LOW with
\* active_low set or HIGH with active_low clear, and SECO otherwise; and
\* active_low is still the flag given to new.
C15_RainReadFollowsPolarity ==
    /\ dev.activeLow = built[2]
    /\ \A k \in Pos(log) : log[k].res = "Ok" /\ log[k].v \in {Humedo, Seco}
    /\ Len(log) > 0 =>
          /\ WetLevel(built[2], dev.level) => log[Len(log)].v = Humedo
          /\ ~WetLevel(built[2], dev.level) => log[Len(log)].v = Seco

\* An active-high sensor has reported both texts, the latest one wet on HIGH.
C15_Witness ==
    /\ pc = "rain"
    /\ built[2] = FALSE
    /\ Len(log) >= 3
    /\ \E k \in Pos(log) : log[k].v = Seco
    /\ dev.level = "High"
    /\ log[Len(log)] = Event("read", 1, 0, Humedo, "Ok")

\* The content has the marker "t=" somewhere.
HasMarker(data) == \E p \in 1..(Len(data) - 1) : data[p] = "t" /\ data[p + 1] = "="

\* The text after the first marker of a content that has one.
AfterFirstMarker(data) ==
    LET first == CHOOSE p \in 1..(Len(data) - 1) :
                    /\ data[p] = "t" /\ data[p + 1] = "="
                    /\ \A q \in 1..(p - 1) : ~(data[q] = "t" /\ data[q + 1] = "=")
    IN  [k \in 1..(Len(data) - first - 1) |-> data[first + 1 + k]]

\* The text is a number, surrounding whitespace aside.
IsNumber(str) ==
    \E a, b \in Pos(str) :
       /\ a <= b
       /\ \A k \in Pos(str) : IF k < a \/ k > b THEN str[k] \in Whitespace ELSE str[k] \in Digits

\* C16: the read of the temperature sensor returns Err exactly when the
\* device file cannot be read, or its content has no "t=", or the text after
\* the first "t=" (surrounding whitespace aside) is not a number; otherwise it
\* returns Ok with a Text; it returns nothing else (no panic).
C16_TemperatureReadErrors ==
    pc = "tempDone" =>
       LET e == log[1]
           fails == \/ ~dev.file.ok
                    \/ ~HasMarker(dev.file.data)
                    \/ ~IsNumber(AfterFirstMarker(dev.file.data))
       IN  /\ e.res \in {"Ok", "Err"}
           /\ e.res = "Err" <=> fails
           /\ e.res = "Ok" => e.v.tag = "Text"

\* "t=27\n" reads as 0.03 degrees.
C16_Witness ==
    /\ pc = "tempDone"
    /\ dev.file = Readable(<< "t", "=", "2", "7", "nl" >>)
    /\ log[1] = Event("read", 1, 0, TempText(3), "Ok")

\* What can be seen of a controller from outside: where its run is and the
\* calls it has made in the cycle.
Observable(c) == [pc |-> c.pc, i |-> c.i, output |-> c.output, elapsed |-> c.elapsed, log |-> c.log]

\* C17: fed the same answers, the controller built with None and the one
\* built with an empty list are at the same position with the same calls
\* made, and neither has made an execute call.
C17_NoneEqualsEmptyList ==
    /\ Observable(twin.a) = Observable(twin.b)
    /\ \A k \in Pos(twin.a.log) : twin.a.log[k].op # "exec"
    /\ \A k \in Pos(twin.b.log) : twin.b.log[k].op # "exec"

\* Both have read two sensors, sent one value with a failed send, and sleep.
C17_Witness ==
    /\ twin.a.actuators = NoActuators
    /\ twin.b.actuators = SomeActuators(<<>>)
    /\ twin.b.pc = "sleep"
    /\ Len(twin.b.sensors) = 2
    /\ \E k \in Pos(twin.b.log) : twin.b.log[k].op = "send" /\ twin.b.log[k].res = "Err"
    /\ \E k \in Pos(twin.b.log) : twin.b.log[k].op = "read" /\ twin.b.log[k].res = "Err"

\* The variables of the loop, as a controller value.
StateCtl ==
    [ pc |-> pc, sensors |-> sensors, actuators |-> actuators, interval |-> interval,
      actState |-> actState, i |-> i, j |-> j, output |-> output, elapsed |-> elapsed,
      log |-> log ]

\* Every step of the loop's actions is the step RunStep computes for some
\* answer, and new yields what NewCtl computes.
RunStepMatchesActions ==
    [][IF pc = "new"
       THEN StateCtl' = NewCtl(sensors', actuators', interval')
       ELSE \E in \in Outcomes : StateCtl' = RunStep(StateCtl, in)]_vars

\* C18: once built, the sensor list, the actuator list and the interval are
\* at every step of run what new was given.
C18_ConfigurationIsFrozen == pc # "new" => config = built

\* A later cycle starts, after failures, with the lists it was built with.
C18_Witness ==
    /\ CycleStart
    /\ prevFailed
    /\ sensors = << "dyn", "dyn" >>
    /\ actuators = SomeActuators(<< "dyn", "dummy" >>)
    /\ interval = 1
====
